---- MODULE Spec2Model ----
(***************************************************************************)
(* Model of the swap interface component (SimpleSwapInterface.tsx): the    *)
(* amount reconciliation logic (edits, mode toggles, debounced and         *)
(* periodic quote requests, quote responses) and the swap submission flow  *)
(* (executeSwap / checkApproval / approveToken).                           *)
(*                                                                         *)
(* React state is modelled by one variable per useState cell.  A handler   *)
(* and the re-render it causes, with every effect whose dependencies       *)
(* changed, is one action.  A timer or a request in flight carries the     *)
(* values its closure captured at the render that created it.              *)
(***************************************************************************)
EXTENDS Integers, Sequences, FiniteSets, TLC

VARIABLES
  fromToken, toToken,       \* useState fromToken / toToken (a token id or NoToken)
  fromAmount, toAmount,     \* useState fromAmount / toAmount (display strings)
  fromMode, toMode,         \* useState fromMode / toMode: "token" | "usd"
  lastEditedField,          \* useState lastEditedField: "from" | "to"
  quoteTimer,               \* useState quoteTimer (seconds)
  quoteLoading,             \* useState quoteLoading
  priceImpact, exchangeRate, \* useState priceImpact (null or a number) / exchangeRate
  debFrom, debTo,           \* pending setTimeout of the two debounce effects
  interval,                 \* setInterval of the auto-refresh effect
  inflight,                 \* fetchQuote calls suspended at `await fetch`
  issued,                   \* history: number of quote requests sent (the last request id)
  newest,                   \* history: the id of the last request sent for each side
  typing,                   \* history: the edits since the debounce delay last elapsed
  last,                     \* history: what the most recent step did
  userOps,                  \* history: number of amounts and clicks the user gave so far
  loading, approving,       \* useState loading / approving
  needsApproval,            \* useState needsApproval
  flows,                    \* executeSwap / approveToken calls suspended at an await
  allowance,                \* the chain: what the router may spend of the input token
  approveTxs,               \* history: the approve transactions sent
  swapTxs,                  \* history: the swap transactions sent
  clicks,                   \* history: number of clicks on the swap button
  calls,                    \* history: number of executeSwap calls started (the last call id)
  events,                   \* history: failed gas estimates and wallet requests, by call
  swapLast,                 \* history: what the most recent step of the swap flow did
  slippageTolerance,        \* useState slippageTolerance (a percentage)
  customSlippage,           \* useState customSlippage: the text of the custom field
  balanceStore,             \* localStorage item 'monorail_wallet_balances'
  chainVersion,             \* the chain: number of confirmed swaps its balances reflect
  availableTokens,          \* useState availableTokens: the balance set on display
  balanceCalls,             \* balance refreshes scheduled or suspended at an await
  balanceLast,              \* history: what the most recent balance step did
  now,                      \* Date.now(), in milliseconds since the page was first opened
  store,                    \* localStorage item 'monorail_token_prices', shared by the tabs
  tabs,                     \* per browser tab: the getTokenPrice call it is running
  cacheLast,                \* history: what the most recent step of the price cache did
  lookups,                  \* history: number of getTokenPrice calls started
  ticks                     \* history: number of times the clock advanced

quoteVars ==
  <<fromToken, toToken, fromAmount, toAmount, fromMode, toMode, lastEditedField,
    quoteTimer, quoteLoading, priceImpact, exchangeRate, debFrom, debTo, interval,
    inflight, issued, newest, typing, last, userOps>>

swapVars ==
  <<loading, approving, needsApproval, flows, allowance, approveTxs, swapTxs, clicks,
    calls, events, swapLast>>

cacheVars == <<now, store, tabs, cacheLast, lookups, ticks>>

settingsVars == <<slippageTolerance, customSlippage>>

balanceVars ==
  <<balanceStore, chainVersion, availableTokens, balanceCalls, balanceLast>>

vars == <<quoteVars, swapVars, cacheVars, settingsVars, balanceVars>>

-----------------------------------------------------------------------------
(* Bounds of the model *)

MaxIssued == 2

MaxUserOps == 2

MaxClicks == 2

MaxApproveTxs == 2

MaxLookups == 3

MaxTicks == 2

(* Program constants *)

DebounceDelay == 200

RefreshInterval == 1000

QuoteTimerFull == 15

SigFigs == 4

-----------------------------------------------------------------------------
(* JavaScript numbers: NaN or an exact rational n/d, d > 0, in lowest terms *)

NaN == [nan |-> TRUE, n |-> 0, d |-> 1]

Abs(x) == IF x < 0 THEN -x ELSE x

RECURSIVE GCD(_, _)
GCD(a, b) == IF b = 0 THEN a ELSE GCD(b, a % b)

Rat(n, d) ==
  LET s == IF d < 0 THEN -1 ELSE 1
      g == GCD(Abs(n), Abs(d))
  IN  [nan |-> FALSE, n |-> (s * n) \div g, d |-> (s * d) \div g]

RECURSIVE Pow10(_)
Pow10(k) == IF k <= 0 THEN 1 ELSE 10 * Pow10(k - 1)

NumMul(x, y) == IF x.nan \/ y.nan THEN NaN ELSE Rat(x.n * y.n, x.d * y.d)

\* x / y for y # 0 (every division of the component is guarded by a truthy price)
NumDiv(x, y) == IF x.nan \/ y.nan THEN NaN ELSE Rat(x.n * y.d, x.d * y.n)

\* x >= y, which is false when either is NaN
NumGeq(x, y) == ~x.nan /\ ~y.nan /\ x.n * y.d >= y.n * x.d

NumSub(x, y) == IF x.nan \/ y.nan THEN NaN ELSE Rat(x.n * y.d - y.n * x.d, x.d * y.d)

\* x > 0, which is false of NaN
NumGtZero(x) == ~x.nan /\ x.n > 0

\* x <= 0, which is false of NaN
NumLeqZero(x) == ~x.nan /\ x.n <= 0

-----------------------------------------------------------------------------
(* Display strings: "", a decimal numeral m * 10^e, the string "NaN", or   *)
(* typed text that is not a numeral ("abc").                               *)

Empty == [k |-> "empty", m |-> 0, e |-> 0]

Junk == [k |-> "junk", m |-> 0, e |-> 0]

NaNStr == [k |-> "NaN", m |-> 0, e |-> 0]

RECURSIVE Norm(_, _)
Norm(m, e) ==
  IF m = 0 THEN [k |-> "num", m |-> 0, e |-> 0]
  ELSE IF m % 10 = 0 THEN Norm(m \div 10, e + 1)
  ELSE [k |-> "num", m |-> m, e |-> e]

Dec(m, e) == Norm(m, e)

\* `!amount` / `amount` used as a condition: the empty string is falsy
Truthy(s) == s.k # "empty"

\* parseFloat(s)
ParseFloat(s) ==
  IF s.k = "num"
  THEN IF s.e >= 0 THEN Rat(s.m * Pow10(s.e), 1) ELSE Rat(s.m, Pow10(-s.e))
  ELSE NaN

\* floor(log10(n/d)) for n, d > 0
RECURSIVE Magnitude(_, _)
Magnitude(n, d) ==
  IF n >= d
  THEN IF n < 10 * d THEN 0 ELSE 1 + Magnitude(n, 10 * d)
  ELSE Magnitude(10 * n, d) - 1

\* Math.round(n/d): the nearest integer, ties towards +infinity
MathRound(n, d) == (2 * n + d) \div (2 * d)

\* formatSignificantFigures(num, sigFigs)
formatSignificantFigures(num, sigFigs) ==
  IF num.nan THEN NaNStr
  ELSE IF num.n = 0 THEN Dec(0, 0)
  ELSE LET magnitude == Magnitude(Abs(num.n), num.d)
           p == sigFigs - 1 - magnitude       \* factor = 10^p
           r == IF p >= 0 THEN MathRound(num.n * Pow10(p), num.d)
                          ELSE MathRound(num.n, num.d * Pow10(-p))
       IN  Norm(r, -p)

-----------------------------------------------------------------------------
(* Tokens: the fields of the Token interface the component computes with. *)
(* usdPrice 0 stands for an unknown price (absent or 0: both are falsy     *)
(* where it is read); null is NoToken.                                     *)

NoToken == [symbol |-> "none", native |-> FALSE, price |-> 0, decimals |-> 18]

\* the native token, priced by getMonUsdPrice (never 0: it falls back to 1.0)
Mon == [symbol |-> "MON", native |-> TRUE, price |-> 2, decimals |-> 18]

\* an ERC-20 token; getTokenPrice gives 0 when the price request fails
Usdc(price) == [symbol |-> "USDC", native |-> FALSE, price |-> price, decimals |-> 6]

\* the prices getTokenPrice may give for the ERC-20 token in this model
UsdcPrices == {0, 3}

\* token.usdPrice as a number
usdPrice(t) == Rat(t.price, 1)

\* `token.usdPrice` / `token?.usdPrice` used as a condition
HasPrice(t) == t.price # 0

\* the values a user types in this model, and the outputs the quote service returns
TypedInputs == {Empty, Junk, Dec(0, 0), Dec(5, 0), Dec(7, 0)}

Outputs == {Dec(998, -2), Dec(123456, -5)}

\* the `amount` parameter of the page URL: absent, or a numeral
UrlAmounts == {Empty, Dec(5, 0)}

Flip(mode) == IF mode = "token" THEN "usd" ELSE "token"

\* the initial values of priceImpact and exchangeRate: null and ''
Null == [null |-> TRUE]

NoRate == [from |-> "", rate |-> Empty, to |-> ""]

\* the price_impact field the quote service sends with output o in this model: a
\* numeral with one output, absent with the other
price_impact(o) == IF o = Dec(998, -2) THEN Dec(2, -1) ELSE Empty

-----------------------------------------------------------------------------
(* The state one render sees, which is what the closures created in that   *)
(* render capture.                                                         *)

RenderState ==
  [ft |-> fromToken, tt |-> toToken, fa |-> fromAmount, ta |-> toAmount,
   fm |-> fromMode, tm |-> toMode, lef |-> lastEditedField]

NoRender ==
  [ft |-> NoToken, tt |-> NoToken, fa |-> Empty, ta |-> Empty,
   fm |-> "token", tm |-> "token", lef |-> "from"]

NoTimer == [on |-> FALSE, left |-> 0, c |-> NoRender]

Timers == [df |-> debFrom, dt |-> debTo, iv |-> interval]

\* what the debounce closure of the from side reads
FromClosure(r) == [r EXCEPT !.ta = Empty]

ToClosure(r) == [r EXCEPT !.fa = Empty]

-----------------------------------------------------------------------------
(* fetchQuote *)

\* lines 441-450: the amount sent to the quote service
TokenAmount(pFrom, pTo, amount, isFromAmount, cFromMode, cToMode) ==
  IF isFromAmount /\ cFromMode = "usd" /\ HasPrice(pFrom)
  THEN NumDiv(ParseFloat(amount), usdPrice(pFrom))
  ELSE IF ~isFromAmount /\ cToMode = "usd" /\ HasPrice(pTo)
  THEN NumDiv(ParseFloat(amount), usdPrice(pTo))
  ELSE ParseFloat(amount)

\* the guard of fetchQuote without its test of the parsed value
SendsRequestUnlessEmpty(amount) == Truthy(amount)

\* line 434: the call goes on to `fetch` unless `!amount || parseFloat(amount) <= 0`
SendsRequest(amount) ==
  ~(~Truthy(amount) \/ NumLeqZero(ParseFloat(amount)))

\* the request a call fetchQuote(pFrom, pTo, amount, isFromAmount) sends, made in a
\* render whose modes were cFromMode and cToMode
Request(id, pFrom, pTo, amount, isFromAmount, cFromMode, cToMode) ==
  [id |-> id, isFrom |-> isFromAmount, pFrom |-> pFrom, pTo |-> pTo,
   amount |-> TokenAmount(pFrom, pTo, amount, isFromAmount, cFromMode, cToMode),
   fm |-> cFromMode, tm |-> cToMode]

\* lines 499-511: the string a response writes into the other side
DisplayAmount(req, outputAmount) ==
  IF req.isFrom
  THEN IF req.tm = "usd" /\ HasPrice(req.pTo)
       THEN formatSignificantFigures(NumMul(outputAmount, usdPrice(req.pTo)), SigFigs)
       ELSE formatSignificantFigures(outputAmount, SigFigs)
  ELSE IF req.fm = "usd" /\ HasPrice(req.pFrom)
       THEN formatSignificantFigures(NumMul(outputAmount, usdPrice(req.pFrom)), SigFigs)
       ELSE formatSignificantFigures(outputAmount, SigFigs)

\* lines 473-484: the price impact after a response with output outputAmount
PriceImpactAfter(req, o, outputAmount) ==
  IF Truthy(price_impact(o)) THEN ParseFloat(price_impact(o))
  ELSE LET inputValue  == NumMul(req.amount, usdPrice(req.pFrom))
           outputValue == NumMul(outputAmount, usdPrice(req.pTo))
       IN  IF NumGtZero(inputValue) /\ NumGtZero(outputValue)
           THEN LET impact == NumMul(NumDiv(NumSub(inputValue, outputValue), inputValue),
                                     Rat(100, 1))
                IN  Rat(Abs(impact.n), impact.d)
           ELSE priceImpact

\* lines 486-491: the exchange rate string after a response with output outputAmount
ExchangeRateAfter(req, outputAmount) ==
  IF NumGtZero(req.amount) /\ NumGtZero(outputAmount)
  THEN [from |-> req.pFrom.symbol,
        rate |-> formatSignificantFigures(NumDiv(outputAmount, req.amount), SigFigs),
        to |-> req.pTo.symbol]
  ELSE exchangeRate

-----------------------------------------------------------------------------
(* The effects of the component, run after a render that changed `old`     *)
(* into `new`.                                                             *)

\* the from-side debounce effect without its cleanup: a pending timeout survives the
\* next change of its dependencies
DebFromEffectWithoutCleanup(old, new, tmr) ==
  IF tmr.df.on THEN tmr.df
  ELSE IF <<old.fa, old.ft, old.tt, old.lef>> = <<new.fa, new.ft, new.tt, new.lef>>
  THEN tmr.df
  ELSE IF new.ft = NoToken \/ new.tt = NoToken \/ ~Truthy(new.fa) \/ new.lef # "from"
  THEN NoTimer
  ELSE [on |-> TRUE, left |-> DebounceDelay, c |-> FromClosure(new)]

\* lines 549-557
DebFromEffect(old, new, tmr) ==
  IF <<old.fa, old.ft, old.tt, old.lef>> = <<new.fa, new.ft, new.tt, new.lef>>
  THEN tmr.df
  ELSE IF new.ft = NoToken \/ new.tt = NoToken \/ ~Truthy(new.fa) \/ new.lef # "from"
  THEN NoTimer
  ELSE [on |-> TRUE, left |-> DebounceDelay, c |-> FromClosure(new)]

\* lines 559-567
DebToEffect(old, new, tmr) ==
  IF <<old.ta, old.ft, old.tt, old.lef>> = <<new.ta, new.ft, new.tt, new.lef>>
  THEN tmr.dt
  ELSE IF new.ft = NoToken \/ new.tt = NoToken \/ ~Truthy(new.ta) \/ new.lef # "to"
  THEN NoTimer
  ELSE [on |-> TRUE, left |-> DebounceDelay, c |-> ToClosure(new)]

\* lines 570-589; lqt: lastQuoteTime changed in this render
IntervalEffect(old, new, tmr, lqt) ==
  IF ~lqt /\ <<old.ft, old.tt, old.fa, old.ta, old.lef>>
               = <<new.ft, new.tt, new.fa, new.ta, new.lef>>
  THEN tmr.iv
  ELSE IF new.ft = NoToken \/ new.tt = NoToken \/ (~Truthy(new.fa) /\ ~Truthy(new.ta))
  THEN NoTimer
  ELSE [on |-> TRUE, left |-> RefreshInterval, c |-> new]

\* a mode-change effect that takes the displayed amount for a token amount and
\* converts it into the mode
RerenderConverting(amount, mode, tok) ==
  IF mode = "usd"
  THEN formatSignificantFigures(NumMul(ParseFloat(amount), usdPrice(tok)), SigFigs)
  ELSE formatSignificantFigures(NumDiv(ParseFloat(amount), usdPrice(tok)), SigFigs)

\* lines 598-604 and 617-623: the amount re-rendered by a mode-change effect
Rerender(amount, mode, tok) ==
  LET currentTokenAmount ==
        IF mode = "usd" THEN NumDiv(ParseFloat(amount), usdPrice(tok))
                        ELSE ParseFloat(amount)
  IN  IF mode = "usd"
      THEN formatSignificantFigures(NumMul(currentTokenAmount, usdPrice(tok)), SigFigs)
      ELSE formatSignificantFigures(currentTokenAmount, SigFigs)

\* lines 592-609
ModeFromEffect(old, new) ==
  IF <<old.fm, usdPrice(old.ft)>> = <<new.fm, usdPrice(new.ft)>> THEN new.fa
  ELSE IF ~Truthy(new.fa) \/ ~HasPrice(new.ft) THEN new.fa
  ELSE IF new.lef = "from" THEN new.fa
  ELSE Rerender(new.fa, new.fm, new.ft)

\* lines 611-628
ModeToEffect(old, new) ==
  IF <<old.tm, usdPrice(old.tt)>> = <<new.tm, usdPrice(new.tt)>> THEN new.ta
  ELSE IF ~Truthy(new.ta) \/ ~HasPrice(new.tt) THEN new.ta
  ELSE IF new.lef = "to" THEN new.ta
  ELSE Rerender(new.ta, new.tm, new.tt)

\* one render: the timers its effects leave and the state they set
Effects(old, new, tmr, lqt) ==
  [st  |-> [new EXCEPT !.fa = ModeFromEffect(old, new), !.ta = ModeToEffect(old, new)],
   tmr |-> [df |-> DebFromEffect(old, new, tmr),
            dt |-> DebToEffect(old, new, tmr),
            iv |-> IntervalEffect(old, new, tmr, lqt)]]

\* a state update and the renders that follow it: the effects of the first render
\* may set state, which renders again
Commit(old, new, tmr, lqt) ==
  LET p1 == Effects(old, new, tmr, lqt)
  IN  Effects(new, p1.st, p1.tmr, FALSE)

\* install the result of Commit
Install(p) ==
  /\ fromToken' = p.st.ft
  /\ toToken' = p.st.tt
  /\ fromAmount' = p.st.fa
  /\ toAmount' = p.st.ta
  /\ fromMode' = p.st.fm
  /\ toMode' = p.st.tm
  /\ lastEditedField' = p.st.lef
  /\ debFrom' = p.tmr.df
  /\ debTo' = p.tmr.dt
  /\ interval' = p.tmr.iv

-----------------------------------------------------------------------------
(* History records *)

\* what a step did: op names the step, req the request it sent or resolved, arg the
\* amount string handed to fetchQuote, out the output of the response, pre the
\* render state the step started from, settled / burst the typing history then
Did(op, src, req, arg, out) ==
  [op |-> op, src |-> src, req |-> req, arg |-> arg, out |-> out,
   pre |-> RenderState, settled |-> (typing.since >= DebounceDelay),
   burst |-> typing.burst]

\* a step the properties do not ask about
Other == [op |-> "other"]

NoReq ==
  [id |-> 0, isFrom |-> TRUE, pFrom |-> NoToken, pTo |-> NoToken, amount |-> NaN,
   fm |-> "token", tm |-> "token"]

\* typing.since: the time since the last edit, up to DebounceDelay; typing.burst:
\* the last edit replaced a value of the same side typed less than DebounceDelay
\* before
Typed(side) ==
  [side |-> side, since |-> 0,
   burst |-> (typing.since < DebounceDelay /\ typing.side = side)]

-----------------------------------------------------------------------------
(* Initial state: the useState initial values, no timer, nothing in flight *)

QuoteInit ==
  /\ fromToken = NoToken
  /\ toToken = NoToken
  /\ fromAmount = Empty
  /\ toAmount = Empty
  /\ fromMode = "token"
  /\ toMode = "token"
  /\ lastEditedField = "from"
  /\ quoteTimer = QuoteTimerFull
  /\ quoteLoading = FALSE
  /\ priceImpact = Null
  /\ exchangeRate = NoRate
  /\ debFrom = NoTimer
  /\ debTo = NoTimer
  /\ interval = NoTimer
  /\ inflight = {}
  /\ issued = 0
  /\ newest = [from |-> 0, to |-> 0]
  /\ typing = [side |-> "from", since |-> DebounceDelay, burst |-> FALSE]
  /\ last = Other
  /\ userOps = 0

\* useState slippageTolerance, line 367: 0.5 until the user changes it
DefaultSlippage == Rat(1, 2)

\* route.ts, line 24: the max_slippage of a request that names none
DefaultMaxSlippage == 100

\* lines 1839 and 2063: the largest custom slippage the validation accepts
MaxCustomSlippage == 50

\* the useState initial values of the swap flow, and the allowance the wallet has
\* given the router for the ERC-20 token (in its smallest unit)
SwapIdle(approved) ==
  /\ loading = FALSE
  /\ approving = FALSE
  /\ needsApproval = FALSE
  /\ flows = {}
  /\ allowance = approved
  /\ approveTxs = {}
  /\ swapTxs = {}
  /\ clicks = 0
  /\ calls = 0
  /\ events = {}
  /\ swapLast = [op |-> "none"]
  /\ slippageTolerance = DefaultSlippage
  /\ customSlippage = Empty

-----------------------------------------------------------------------------
(* The price cache: one localStorage item that holds a JSON object from     *)
(* token address to {price, timestamp}, read and written by every tab of   *)
(* the origin.                                                             *)

\* line 90: PRICE_CACHE_DURATION = 5 * 60 * 1000, in milliseconds
PRICE_CACHE_DURATION == 300000

\* the addresses of two ERC-20 tokens
Addresses == {"0xA", "0xB"}

\* the browser tabs that have the page open
Tabs == {1, 2}

\* data.mon_per_token of the price endpoint; 0: absent or zero
MonPerToken == {0, 2}

\* how far the clock advances at a time
Steps == {1, PRICE_CACHE_DURATION}

\* localStorage.getItem returns null: the item was never written
Absent == [kind |-> "absent"]

\* the item holds text that JSON.parse rejects
Corrupted == [kind |-> "corrupted"]

\* JSON.stringify(cache): the text of an object from addresses to entries
Stringify(cache) == [kind |-> "json", object |-> cache]

\* JSON.parse(cached): the object, or a SyntaxError
Parse(cached) ==
  IF cached.kind = "json" THEN [threw |-> FALSE, object |-> cached.object]
  ELSE [threw |-> TRUE, object |-> <<>>]

\* an entry that never expires
IsExpiredNever(t, timestamp) == FALSE

\* line 110: Date.now() - tokenCache.timestamp > PRICE_CACHE_DURATION
IsExpired(t, timestamp) == t - timestamp > PRICE_CACHE_DURATION

\* getCachedPrice, lines 101-119: the cached price, or Null
getCachedPrice(cached, address, t) ==
  IF cached = Absent THEN Null
  ELSE IF Parse(cached).threw THEN Null
  ELSE IF address \notin DOMAIN Parse(cached).object THEN Null
  ELSE IF IsExpired(t, Parse(cached).object[address].timestamp) THEN Null
  ELSE Parse(cached).object[address].price

\* lines 129-135 of setCachedPrice: the object read from the item, with the entry of
\* the address set
WithEntry(cached, address, price, t) ==
  LET cache == IF cached = Absent THEN <<>> ELSE Parse(cached).object
  IN  [a \in DOMAIN cache \cup {address} |->
         IF a = address THEN [price |-> price, timestamp |-> t] ELSE cache[a]]

\* the entry of an address in the item; Null: none that can be read
EntryOf(cached, address) ==
  IF cached = Absent \/ Parse(cached).threw THEN Null
  ELSE IF address \notin DOMAIN Parse(cached).object THEN Null
  ELSE Parse(cached).object[address]

\* the age of the entry of an address; -1: none that can be read
AgeOf(cached, address, t) ==
  IF EntryOf(cached, address) = Null THEN -1
  ELSE t - EntryOf(cached, address).timestamp

\* a tab that runs no getTokenPrice call
Idle == [pc |-> "idle"]

-----------------------------------------------------------------------------
(* The balance cache: one localStorage item that holds the balance set of   *)
(* the wallet with the time it was stored.  A balance set is named by the   *)
(* number of confirmed swaps it reflects.                                  *)

\* line 93
BALANCE_CACHE_DURATION == 30000

\* lines 243 and 318-321: the balance set of a failed fetch (none, or zero balances)
NoBalances == -1

\* setCachedBalances, lines 163-177: the item after balances were stored at time t
BalanceEntry(balances, t) == [kind |-> "json", balances |-> balances, timestamp |-> t]

\* getCachedBalances, lines 143-161
getCachedBalances(cached, t) ==
  IF cached = Absent THEN [hit |-> FALSE]
  ELSE IF t - cached.timestamp > BALANCE_CACHE_DURATION THEN [hit |-> FALSE]
  ELSE [hit |-> TRUE, balances |-> cached.balances, timestamp |-> cached.timestamp]

\* history: a balance refresh installed a balance set.  live: it was fetched by this
\* call; storedAt: when the set was obtained
Installed(call, balances, storedAt, live) ==
  [op |-> "installed", call |-> call, balances |-> balances, storedAt |-> storedAt,
   live |-> live]

\* no balance refresh is running; the item holds what the page load stored
BalanceIdle(cached) ==
  /\ balanceStore = cached
  /\ chainVersion = 0
  /\ availableTokens = IF cached = Absent THEN NoBalances ELSE cached.balances
  /\ balanceCalls = {}
  /\ balanceLast = [op |-> "none"]

\* history: a getTokenPrice call looked its address up in the cache.  age: the age
\* of the entry it found; after: the step before
Looked(tab, address, result, after) ==
  [op |-> "lookup", tab |-> tab, address |-> address, result |-> result,
   age |-> AgeOf(store, address, now), fetches |-> result = Null, after |-> after]

\* history: a setCachedPrice call ended.  outcome: "written", or "caught" when its
\* try block threw
PutEnded(tab, address, price, outcome) ==
  [op |-> "put", tab |-> tab, address |-> address, price |-> price,
   outcome |-> outcome]

\* history: another step
CacheStep(op, tab) == [op |-> op, tab |-> tab]

\* the page is open in its tabs, nothing is running
CacheIdle(cached) ==
  /\ now = 0
  /\ store = cached
  /\ tabs = [t \in Tabs |-> Idle]
  /\ cacheLast = CacheStep("none", 0)
  /\ lookups = 0
  /\ ticks = 0

CacheFrame == UNCHANGED <<quoteVars, swapVars, settingsVars, balanceVars>>

\* time passes
Tick(d) ==
  /\ ticks < MaxTicks
  /\ now' = now + d
  /\ ticks' = ticks + 1
  /\ cacheLast' = CacheStep("tick", 0)
  /\ UNCHANGED <<store, tabs, lookups>>
  /\ CacheFrame

\* getTokenPrice, lines 187-198, for an ERC-20 token: the cached price is returned,
\* or the call goes on to its `await fetch`
GetTokenPrice(tab, address) ==
  /\ lookups < MaxLookups
  /\ tabs[tab] = Idle
  /\ lookups' = lookups + 1
  /\ LET cachedPrice == getCachedPrice(store, address, now) IN
       /\ tabs' = IF cachedPrice # Null THEN tabs
                  ELSE [tabs EXCEPT ![tab] = [pc |-> "fetch", address |-> address]]
       /\ cacheLast' = Looked(tab, address, cachedPrice, cacheLast)
  /\ UNCHANGED <<now, store, ticks>>
  /\ CacheFrame

\* lines 199-218 and 127-131: the price endpoint answers.  ok: an OK response whose
\* body parses; then the price is computed and setCachedPrice runs up to the point
\* where it has read the item
PriceFetched(tab, ok, monPerToken) ==
  /\ tabs[tab].pc = "fetch"
  /\ LET address == tabs[tab].address
         price == IF monPerToken > 0
                  THEN NumDiv(usdPrice(Mon), Rat(monPerToken, 1))
                  ELSE Rat(0, 1)
     IN  IF ~ok
         THEN /\ tabs' = [tabs EXCEPT ![tab] = Idle]
              /\ cacheLast' = CacheStep("fetchFailed", tab)
         ELSE IF store # Absent /\ Parse(store).threw
         THEN /\ tabs' = [tabs EXCEPT ![tab] = Idle]
              /\ cacheLast' = PutEnded(tab, address, price, "caught")
         ELSE /\ tabs' = [tabs EXCEPT ![tab] =
                            [pc |-> "write", address |-> address, price |-> price,
                             cache |-> WithEntry(store, address, price, now)]]
              /\ cacheLast' = CacheStep("read", tab)
  /\ UNCHANGED <<now, store, lookups, ticks>>
  /\ CacheFrame

\* line 137 of setCachedPrice: localStorage.setItem(PRICE_CACHE_KEY,
\* JSON.stringify(cache)); then getTokenPrice returns the price
ItemWritten(tab) ==
  /\ tabs[tab].pc = "write"
  /\ store' = Stringify(tabs[tab].cache)
  /\ tabs' = [tabs EXCEPT ![tab] = Idle]
  /\ cacheLast' = PutEnded(tab, tabs[tab].address, tabs[tab].price, "written")
  /\ UNCHANGED <<now, lookups, ticks>>
  /\ CacheFrame

CacheInit ==
  /\ QuoteInit
  /\ SwapIdle(Rat(0, 1))
  /\ BalanceIdle(Absent)
  /\ \E cached \in {Absent, Corrupted} : CacheIdle(cached)

CacheNext ==
  \/ \E d \in Steps : Tick(d)
  \/ \E tab \in Tabs : \E address \in Addresses : GetTokenPrice(tab, address)
  \/ \E tab \in Tabs : \E ok \in BOOLEAN : \E m \in MonPerToken : PriceFetched(tab, ok, m)
  \/ \E tab \in Tabs : ItemWritten(tab)

SpecCache == CacheInit /\ [][CacheNext]_vars

-----------------------------------------------------------------------------
(* A call of fetchQuote up to its `await fetch` *)

SideOf(isFromAmount) == IF isFromAmount THEN "from" ELSE "to"

\* fetchQuote(pFrom, pTo, amount, isFromAmount) called from a closure of render c
CallFetchQuote(src, pFrom, pTo, amount, isFromAmount, c) ==
  IF SendsRequest(amount)
  THEN LET req == Request(issued + 1, pFrom, pTo, amount, isFromAmount, c.fm, c.tm)
       IN  /\ issued < MaxIssued
           /\ inflight' = inflight \cup {req}
           /\ issued' = issued + 1
           /\ newest' = [newest EXCEPT ![SideOf(isFromAmount)] = issued + 1]
           /\ quoteLoading' = TRUE
           /\ last' = Did("issue", src, req, amount, Empty)
  ELSE /\ UNCHANGED <<inflight, issued, newest, quoteLoading>>
       /\ last' = Did("skip", src, NoReq, amount, Empty)

\* a callback that asks for the from side whichever side was edited last
CallForFromSide(src, c) == CallFetchQuote(src, c.ft, c.tt, c.fa, TRUE, c)

\* lines 577-581 and 1723-1727: the call made for the side last edited
CallForFocus(src, c) ==
  IF c.lef = "from" /\ Truthy(c.fa)
  THEN CallFetchQuote(src, c.ft, c.tt, c.fa, TRUE, c)
  ELSE IF c.lef = "to" /\ Truthy(c.ta)
  THEN CallFetchQuote(src, c.tt, c.ft, c.ta, FALSE, c)
  ELSE /\ UNCHANGED <<inflight, issued, newest, quoteLoading>>
       /\ last' = Did("skip", src, NoReq, IF c.lef = "from" THEN c.fa ELSE c.ta, Empty)

-----------------------------------------------------------------------------
(* User gestures *)

\* loadData, lines 1119-1186, once the token list and its prices have loaded: the
\* default pair MON -> USDC, or the pair of the URL with its amount parameter
\* (amountParam = Empty: the URL has none)
LoadData(price, amountParam) ==
  /\ fromToken = NoToken /\ toToken = NoToken
  /\ Install(Commit(RenderState,
                    IF Truthy(amountParam)
                    THEN [RenderState EXCEPT !.ft = Mon, !.tt = Usdc(price),
                                             !.fa = amountParam, !.fm = "token",
                                             !.lef = "from"]
                    ELSE [RenderState EXCEPT !.ft = Mon, !.tt = Usdc(price)],
                    Timers, FALSE))
  /\ last' = Other
  /\ userOps' = IF Truthy(amountParam) THEN userOps + 1 ELSE userOps
  /\ UNCHANGED <<quoteTimer, quoteLoading, inflight, issued, newest, typing>>
  /\ UNCHANGED <<swapVars, cacheVars, settingsVars, balanceVars>>
  /\ UNCHANGED <<priceImpact, exchangeRate>>

\* lines 1525-1529: onChange of the from-amount input
EditFrom(value) ==
  /\ userOps < MaxUserOps
  /\ value # fromAmount
  /\ Install(Commit(RenderState,
                    [RenderState EXCEPT !.fa = value, !.lef = "from"], Timers, FALSE))
  /\ typing' = Typed("from")
  /\ last' = Other
  /\ userOps' = userOps + 1
  /\ UNCHANGED <<quoteTimer, quoteLoading, inflight, issued, newest>>
  /\ UNCHANGED <<swapVars, cacheVars, settingsVars, balanceVars>>
  /\ UNCHANGED <<priceImpact, exchangeRate>>

\* lines 1621-1625: onChange of the to-amount input
EditTo(value) ==
  /\ userOps < MaxUserOps
  /\ value # toAmount
  /\ Install(Commit(RenderState,
                    [RenderState EXCEPT !.ta = value, !.lef = "to"], Timers, FALSE))
  /\ typing' = Typed("to")
  /\ last' = Other
  /\ userOps' = userOps + 1
  /\ UNCHANGED <<quoteTimer, quoteLoading, inflight, issued, newest>>
  /\ UNCHANGED <<swapVars, cacheVars, settingsVars, balanceVars>>
  /\ UNCHANGED <<priceImpact, exchangeRate>>

\* lines 1552-1563 and 1667-1678: the amount a mode toggle displays
Toggled(amount, newMode, tok) ==
  IF Truthy(amount) /\ HasPrice(tok)
  THEN IF newMode = "usd"
       THEN formatSignificantFigures(NumMul(ParseFloat(amount), usdPrice(tok)), SigFigs)
       ELSE formatSignificantFigures(NumDiv(ParseFloat(amount), usdPrice(tok)), SigFigs)
  ELSE amount

\* lines 1547-1564: the from-side mode toggle
ToggleFromMode ==
  /\ userOps < MaxUserOps
  /\ LET newMode == Flip(fromMode)
     IN  Install(Commit(RenderState,
                        [RenderState EXCEPT !.fm = newMode,
                                            !.fa = Toggled(fromAmount, newMode, fromToken)],
                        Timers, FALSE))
  /\ last' = Did("toggle", "from", NoReq, fromAmount, Empty)
  /\ userOps' = userOps + 1
  /\ UNCHANGED <<quoteTimer, quoteLoading, inflight, issued, newest, typing>>
  /\ UNCHANGED <<swapVars, cacheVars, settingsVars, balanceVars>>
  /\ UNCHANGED <<priceImpact, exchangeRate>>

\* lines 1662-1679: the to-side mode toggle
ToggleToMode ==
  /\ userOps < MaxUserOps
  /\ LET newMode == Flip(toMode)
     IN  Install(Commit(RenderState,
                        [RenderState EXCEPT !.tm = newMode,
                                            !.ta = Toggled(toAmount, newMode, toToken)],
                        Timers, FALSE))
  /\ last' = Did("toggle", "to", NoReq, toAmount, Empty)
  /\ userOps' = userOps + 1
  /\ UNCHANGED <<quoteTimer, quoteLoading, inflight, issued, newest, typing>>
  /\ UNCHANGED <<swapVars, cacheVars, settingsVars, balanceVars>>
  /\ UNCHANGED <<priceImpact, exchangeRate>>

\* lines 1693 and 1721-1729: the manual refresh button
RefreshClick ==
  /\ userOps < MaxUserOps
  /\ fromToken # NoToken /\ toToken # NoToken
  /\ Truthy(fromAmount) \/ Truthy(toAmount)
  /\ ~quoteLoading
  /\ CallForFocus("refresh", RenderState)
  /\ userOps' = userOps + 1
  /\ UNCHANGED <<fromToken, toToken, fromAmount, toAmount, fromMode, toMode,
                 lastEditedField, quoteTimer, debFrom, debTo, interval, typing>>
  /\ UNCHANGED <<swapVars, cacheVars, settingsVars, balanceVars>>
  /\ UNCHANGED <<priceImpact, exchangeRate>>

\* lines 1579-1586: the swap-direction button between the two sides
SwapSides ==
  /\ userOps < MaxUserOps
  /\ Install(Commit(RenderState,
                    [RenderState EXCEPT !.ft = toToken, !.tt = fromToken,
                                        !.fa = toAmount, !.ta = fromAmount],
                    Timers, FALSE))
  /\ last' = Did("swapSides", "user", NoReq, Empty, Empty)
  /\ userOps' = userOps + 1
  /\ UNCHANGED <<quoteTimer, quoteLoading, inflight, issued, newest, typing>>
  /\ UNCHANGED <<swapVars, cacheVars, settingsVars, balanceVars>>
  /\ UNCHANGED <<priceImpact, exchangeRate>>

-----------------------------------------------------------------------------
(* Timers *)

ActiveTimers == {t \in {debFrom, debTo, interval} : t.on}

Min(S) == CHOOSE x \in S : \A y \in S : x <= y

Elapse(t, d) == IF t.on THEN [t EXCEPT !.left = t.left - d] ELSE t

\* time passes until the next timer is due
Advance ==
  /\ ActiveTimers # {}
  /\ \A t \in ActiveTimers : t.left > 0
  /\ LET d == Min({t.left : t \in ActiveTimers})
     IN  /\ debFrom' = Elapse(debFrom, d)
         /\ debTo' = Elapse(debTo, d)
         /\ interval' = Elapse(interval, d)
         /\ typing' = [typing EXCEPT !.since = IF typing.since + d >= DebounceDelay
                                               THEN DebounceDelay
                                               ELSE typing.since + d]
  /\ last' = Other
  /\ UNCHANGED <<fromToken, toToken, fromAmount, toAmount, fromMode, toMode,
                 lastEditedField, quoteTimer, quoteLoading, inflight, issued, newest,
                 userOps>>
  /\ UNCHANGED <<swapVars, cacheVars, settingsVars, balanceVars>>
  /\ UNCHANGED <<priceImpact, exchangeRate>>

\* lines 552-554: the timeout of the from-side debounce effect fires
DebounceFromFires ==
  /\ debFrom.on /\ debFrom.left = 0
  /\ debFrom' = NoTimer
  /\ CallFetchQuote("debounce", debFrom.c.ft, debFrom.c.tt, debFrom.c.fa, TRUE, debFrom.c)
  /\ UNCHANGED <<fromToken, toToken, fromAmount, toAmount, fromMode, toMode,
                 lastEditedField, quoteTimer, debTo, interval, typing, userOps>>
  /\ UNCHANGED <<swapVars, cacheVars, settingsVars, balanceVars>>
  /\ UNCHANGED <<priceImpact, exchangeRate>>

\* lines 562-564: the timeout of the to-side debounce effect fires
DebounceToFires ==
  /\ debTo.on /\ debTo.left = 0
  /\ debTo' = NoTimer
  /\ CallFetchQuote("debounce", debTo.c.tt, debTo.c.ft, debTo.c.ta, FALSE, debTo.c)
  /\ UNCHANGED <<fromToken, toToken, fromAmount, toAmount, fromMode, toMode,
                 lastEditedField, quoteTimer, debFrom, interval, typing, userOps>>
  /\ UNCHANGED <<swapVars, cacheVars, settingsVars, balanceVars>>
  /\ UNCHANGED <<priceImpact, exchangeRate>>

\* lines 573-586: one tick of the auto-refresh interval
IntervalTick ==
  /\ interval.on /\ interval.left = 0
  /\ interval' = [interval EXCEPT !.left = RefreshInterval]
  /\ IF quoteTimer <= 1
     THEN /\ CallForFocus("interval", interval.c)
          /\ quoteTimer' = QuoteTimerFull
     ELSE /\ quoteTimer' = quoteTimer - 1
          /\ last' = Other
          /\ UNCHANGED <<inflight, issued, newest, quoteLoading>>
  /\ UNCHANGED <<fromToken, toToken, fromAmount, toAmount, fromMode, toMode,
                 lastEditedField, debFrom, debTo, typing, userOps>>
  /\ UNCHANGED <<swapVars, cacheVars, settingsVars, balanceVars>>
  /\ UNCHANGED <<priceImpact, exchangeRate>>

-----------------------------------------------------------------------------
(* A fetchQuote call resumes with the response *)

\* the error a failed call catches.  cause "liquidity": the quote service refuses
\* for insufficient liquidity, which the proxy route forwards with the service's
\* non-OK status; "offline" and "connectionLost": fetch rejects, with the message of
\* the browser
Causes == {"liquidity", "offline", "connectionLost"}

\* line 455 and the rejections of fetch: error.message
ErrorMessage(cause) ==
  CASE cause = "liquidity"      -> "Quote failed: 400"
    [] cause = "offline"        -> "Failed to fetch"
    [] cause = "connectionLost" -> "The network connection was lost."

\* the words the catch blocks look for (lines 521-529, 701-709, 927-961) that occur
\* in a message (String.includes compares case-sensitively)
WordsIn(message) ==
  CASE message = "The network connection was lost." -> {"network"}
    [] message = "Transaction would fail. This could be due to insufficient balance, expired quote, or high slippage. Try refreshing the quote or increasing slippage tolerance."
         -> {"insufficient balance", "slippage"}
    [] OTHER -> {}

\* error.message.includes(word)
Includes(message, word) == word \in WordsIn(message)

\* a catch block that shows nothing
NotifiesNothing(message) == <<>>

\* lines 517-542: the notifications the catch block of fetchQuote shows, by title
QuoteFailureNotifications(message) ==
  IF Includes(message, "insufficient liquidity") THEN <<"Insufficient Liquidity">>
  ELSE IF Includes(message, "network") THEN <<"Network Error">>
  ELSE <<"Quote Failed">>

\* history: a fetchQuote call ended in its catch block
QuoteFailed(req, cause) ==
  [op |-> "fail", req |-> req, cause |-> cause,
   notes |-> QuoteFailureNotifications(ErrorMessage(cause)),
   pre |-> RenderState, impact |-> priceImpact, rate |-> exchangeRate]

Outcomes ==
  {[kind |-> "ok", o |-> o, cause |-> ""] : o \in Outputs}
    \cup {[kind |-> "empty", o |-> Empty, cause |-> ""]}
    \cup {[kind |-> "fail", o |-> Empty, cause |-> c] : c \in Causes}

\* the state lines 499-511 set when the response carries an output
Applied(req, o) ==
  IF req.isFrom
  THEN [RenderState EXCEPT !.ta = DisplayAmount(req, ParseFloat(o))]
  ELSE [RenderState EXCEPT !.fa = DisplayAmount(req, ParseFloat(o))]

\* lines 454-546 after the await: "ok" is an OK response with output_formatted = o,
\* "empty" an OK response without output, "fail" a non-OK status or a rejected fetch
QuoteResolved(req, out) ==
  /\ req \in inflight
  /\ inflight' = inflight \ {req}
  /\ quoteLoading' = FALSE
  /\ IF out.kind = "ok"
     THEN /\ Install(Commit(RenderState, Applied(req, out.o), Timers, TRUE))
          /\ quoteTimer' = QuoteTimerFull
          /\ priceImpact' = PriceImpactAfter(req, out.o, ParseFloat(out.o))
          /\ exchangeRate' = ExchangeRateAfter(req, ParseFloat(out.o))
     ELSE UNCHANGED <<fromToken, toToken, fromAmount, toAmount, fromMode, toMode,
                      lastEditedField, debFrom, debTo, interval, quoteTimer,
                      priceImpact, exchangeRate>>
  /\ last' = CASE out.kind = "ok"   -> Did("apply", "service", req, Empty, out.o)
               [] out.kind = "fail" -> QuoteFailed(req, out.cause)
               [] OTHER             -> Other
  /\ UNCHANGED <<issued, newest, typing, userOps>>
  /\ UNCHANGED <<swapVars, cacheVars, settingsVars, balanceVars>>

-----------------------------------------------------------------------------

QuoteNext ==
  \/ \E price \in UsdcPrices : \E amountParam \in UrlAmounts : LoadData(price, amountParam)
  \/ \E v \in TypedInputs : EditFrom(v)
  \/ \E v \in TypedInputs : EditTo(v)
  \/ ToggleFromMode
  \/ ToggleToMode
  \/ RefreshClick
  \/ Advance
  \/ DebounceFromFires
  \/ DebounceToFires
  \/ IntervalTick
  \/ \E req \in inflight : \E out \in Outcomes : QuoteResolved(req, out)

Init == QuoteInit /\ SwapIdle(Rat(0, 1)) /\ CacheIdle(Absent) /\ BalanceIdle(Absent)

Spec == Init /\ [][QuoteNext]_vars

\* what the user types in the runs that press the swap-direction button: a numeral
\* of five significant digits, or text that is no numeral
FormInputs == {Dec(12345, -4), Junk}

\* the quote engine with the swap-direction button
FormNext ==
  \/ \E price \in UsdcPrices : \E amountParam \in UrlAmounts : LoadData(price, amountParam)
  \/ \E v \in FormInputs : EditFrom(v)
  \/ \E v \in FormInputs : EditTo(v)
  \/ SwapSides
  \/ ToggleFromMode
  \/ ToggleToMode
  \/ RefreshClick
  \/ Advance
  \/ DebounceFromFires
  \/ DebounceToFires
  \/ IntervalTick
  \/ \E req \in inflight : \E out \in Outcomes : QuoteResolved(req, out)

SpecForm == Init /\ [][FormNext]_vars

\* amounts typed before a mode is toggled back and forth
RoundTripAmounts == {Dec(5, 0), Dec(5002, -2), Dec(3334, -2)}

\* the form after loadData and after the user has typed v into one side
RoundTripInit ==
  /\ \E price \in UsdcPrices : \E v \in RoundTripAmounts : \E side \in {"from", "to"} :
       LET none == [df |-> NoTimer, dt |-> NoTimer, iv |-> NoTimer]
           loaded == Commit(NoRender, [NoRender EXCEPT !.ft = Mon, !.tt = Usdc(price)],
                            none, FALSE)
           typed == Commit(loaded.st,
                           IF side = "from"
                           THEN [loaded.st EXCEPT !.fa = v, !.lef = "from"]
                           ELSE [loaded.st EXCEPT !.ta = v, !.lef = "to"],
                           loaded.tmr, FALSE)
       IN  /\ fromToken = typed.st.ft
           /\ toToken = typed.st.tt
           /\ fromAmount = typed.st.fa
           /\ toAmount = typed.st.ta
           /\ fromMode = typed.st.fm
           /\ toMode = typed.st.tm
           /\ lastEditedField = typed.st.lef
           /\ debFrom = typed.tmr.df
           /\ debTo = typed.tmr.dt
           /\ interval = typed.tmr.iv
           /\ typing = [side |-> side, since |-> 0, burst |-> FALSE]
  /\ quoteTimer = QuoteTimerFull
  /\ quoteLoading = FALSE
  /\ priceImpact = Null
  /\ exchangeRate = NoRate
  /\ inflight = {}
  /\ issued = 0
  /\ newest = [from |-> 0, to |-> 0]
  /\ last = Other
  /\ userOps = 0
  /\ SwapIdle(Rat(0, 1))
  /\ CacheIdle(Absent)
  /\ BalanceIdle(Absent)

\* the mode toggles, the timers and the quote responses; the responses of these
\* runs carry no output or fail (what an applied output does is the subject of Spec)
RoundTripNext ==
  \/ ToggleFromMode
  \/ ToggleToMode
  \/ Advance
  \/ DebounceFromFires
  \/ DebounceToFires
  \/ IntervalTick
  \/ \E req \in inflight : \E out \in {o \in Outcomes : o.kind # "ok"} :
       QuoteResolved(req, out)

SpecRoundTrip == RoundTripInit /\ [][RoundTripNext]_vars

-----------------------------------------------------------------------------
(* The swap submission flow: executeSwap, checkApproval, approveToken.  A   *)
(* flow is one call of executeSwap suspended at an await, with the render  *)
(* state its closure captured; while it awaits approveToken the flow stands *)
(* for both calls.                                                         *)

\* lines 763-769: the token amount of the quote request, the allowance check and the
\* approve call
SwapAmount(c) ==
  IF c.fm = "usd" /\ HasPrice(c.ft)
  THEN NumDiv(ParseFloat(c.fa), usdPrice(c.ft))
  ELSE ParseFloat(c.fa)

\* lines 647 and 663: parseFloat(amount) * Math.pow(10, fromToken?.decimals || 18)
RawAmount(c) == NumMul(SwapAmount(c), Rat(Pow10(c.ft.decimals), 1))

\* line 843 (and line 679): the attempt ceiling of the receipt polling loop
PollLimit == 30

\* line 927 (and line 701): the error code of a request the user rejected in the wallet
UserRejectedCode == 4001

\* line 770: the query string of the request executeSwap sends to the proxy route;
\* it names no max_slippage
SwapQuoteQuery(c) ==
  [from |-> c.ft.symbol, to |-> c.tt.symbol, amount |-> SwapAmount(c),
   max_slippage |-> Null]

\* route.ts, lines 20-28: the parameters the route hands to the quote service, which
\* builds the transaction for them
PathfinderParams(query) ==
  [query EXCEPT !.max_slippage = IF @ = Null THEN Rat(DefaultMaxSlippage, 1) ELSE @]

Flow(id, click, pc, c, resumed) ==
  [id |-> id, click |-> click, pc |-> pc, c |-> c, resumed |-> resumed, attempts |-> 0]

At(f, pc) == [f EXCEPT !.pc = pc]

\* the form is left as it is
FormUnchanged == UNCHANGED <<quoteVars, cacheVars, settingsVars, balanceVars>>

\* the errors the try block of executeSwap ends with, by the step that raised them:
\* lines 774, 817-821, 828, 845 and 913
SwapError(cause) ==
  CASE cause = "quote" ->
         [message |-> "Failed to get swap quote: 500 - Internal Server Error", code |-> 0]
    [] cause = "estimate" ->
         [message |-> "Transaction would fail. This could be due to insufficient balance, expired quote, or high slippage. Try refreshing the quote or increasing slippage tolerance.",
          code |-> 0]
    [] cause = "rejected" ->
         [message |-> "User rejected the request.", code |-> UserRejectedCode]
    [] cause = "rpc" ->
         [message |-> "Internal JSON-RPC error.", code |-> -32603]
    [] cause = "reverted" ->
         [message |-> "Transaction failed - Status: 0x0", code |-> 0]
    [] cause = "timeout" ->
         [message |-> "Transaction failed - Status: unknown", code |-> 0]

\* the error approveToken's try block ends with: the wallet's rejection, line 666, or
\* line 695
ApproveError(cause) ==
  IF cause = "rejected"
  THEN [message |-> "User rejected the request.", code |-> UserRejectedCode]
  ELSE [message |-> "Approval transaction failed", code |-> 0]

\* a notification shown by showNotification('error', ...): its title and the part of
\* its text that varies.  None of the notifications of lines 927-975 and 701-722 links
\* to the block explorer; only the success modal does (line 1970).
Note(title, detail) == [title |-> title, detail |-> detail, explorer |-> FALSE]

\* lines 927-975: the notification the catch block of executeSwap shows
SwapFailureNotifications(error) ==
  IF Includes(error.message, "user rejected") \/ error.code = UserRejectedCode
  THEN <<Note("Transaction Cancelled", "")>>
  ELSE IF \/ Includes(error.message, "insufficient funds")
          \/ Includes(error.message, "insufficient balance")
  THEN <<Note("Insufficient Balance", "")>>
  ELSE IF Includes(error.message, "gas required exceeds allowance")
  THEN <<Note("Gas Limit Too Low", "")>>
  ELSE IF Includes(error.message, "slippage")
  THEN <<Note("Price Moved Too Much", "")>>
  ELSE IF Includes(error.message, "nonce")
  THEN <<Note("Transaction Conflict", "")>>
  ELSE IF Includes(error.message, "network") \/ Includes(error.message, "timeout")
  THEN <<Note("Network Error", "")>>
  ELSE <<Note("Swap Failed", error.message)>>

\* lines 701-722: the notification the catch block of approveToken shows
ApproveFailureNotifications(error) ==
  IF error.code = UserRejectedCode \/ Includes(error.message, "user rejected")
  THEN <<Note("Approval Cancelled", "")>>
  ELSE IF Includes(error.message, "insufficient funds")
  THEN <<Note("Insufficient Gas", "")>>
  ELSE <<Note("Approval Failed", "")>>

\* history: a step of a flow that does not end it
SwapStep == [op |-> "step"]

\* history: the step that ended a flow.  requests: the receipt requests the flow made
\* for its swap transaction; receipt: the status of the receipt it got, "none" without
\* one; modal: the success modal is shown
SwapEnded(op, f, step, cause, requests, receipt, notes) ==
  [op |-> op, call |-> f.id, step |-> step, cause |-> cause, requests |-> requests,
   receipt |-> receipt, notes |-> notes, modal |-> op = "success"]

\* history: call f asked the wallet or the node for something
Event(f, ev) == [call |-> f.id, ev |-> ev]

\* the catch and finally blocks of executeSwap, lines 912-979: the flow ends with a
\* notification and the form as it was
SwapFailed(f, step, cause, requests) ==
  /\ flows' = flows \ {f}
  /\ loading' = FALSE
  /\ swapLast' = SwapEnded("failed", f, step, cause, requests,
                           IF cause = "reverted" THEN "0x0" ELSE "none",
                           SwapFailureNotifications(SwapError(cause)))
  /\ FormUnchanged
  /\ UNCHANGED <<approving, needsApproval, allowance, approveTxs, swapTxs, clicks, calls>>

\* the catch and finally blocks of approveToken, lines 699-725, and then the `return`
\* and the finally block of the executeSwap that awaited it, lines 791-792 and 977-979
ApprovalFailed(f, step, cause) ==
  /\ flows' = flows \ {f}
  /\ approving' = FALSE
  /\ loading' = FALSE
  /\ swapLast' = SwapEnded("failed", f, step, cause, 0, "none",
                           ApproveFailureNotifications(ApproveError(cause)))
  /\ FormUnchanged
  /\ UNCHANGED <<needsApproval, allowance, approveTxs, swapTxs, clicks, calls, events>>

\* line 1885: priceImpact !== null && priceImpact > slippageTolerance
ImpactTooHigh ==
  IF priceImpact = Null THEN FALSE
  ELSE ~priceImpact.nan /\ ~NumGeq(slippageTolerance, priceImpact)

\* lines 1883-1886 and 743-772: a click on the enabled swap button runs executeSwap
\* up to its `await fetch` (the wallet is connected)
ClickSwap ==
  /\ clicks < MaxClicks
  /\ ~(fromToken = NoToken \/ toToken = NoToken \/ ~Truthy(fromAmount)
         \/ loading \/ quoteLoading \/ approving \/ ImpactTooHigh)
  /\ loading' = TRUE
  /\ flows' = flows \cup {Flow(calls + 1, clicks + 1, "quote", RenderState, FALSE)}
  /\ calls' = calls + 1
  /\ clicks' = clicks + 1
  /\ swapLast' = SwapStep
  /\ FormUnchanged
  /\ UNCHANGED <<approving, needsApproval, allowance, approveTxs, swapTxs, events>>

\* lines 772-784: the quote of the swap arrives; ok: an OK response that carries a
\* transaction
SwapQuoteResolved(f, ok) ==
  /\ f \in flows /\ f.pc = "quote"
  /\ UNCHANGED events
  /\ IF ok
     THEN /\ flows' = (flows \ {f})
                        \cup {At(f, IF f.c.ft.native THEN "gas" ELSE "allowance")}
          /\ swapLast' = SwapStep
          /\ FormUnchanged
          /\ UNCHANGED <<loading, approving, needsApproval, allowance, approveTxs,
                         swapTxs, clicks, calls>>
     ELSE SwapFailed(f, "quote", "quote", 0)

\* checkApproval, lines 631-654: readOk = the eth_call answered
HasApproval(f, readOk) == readOk /\ NumGeq(allowance, RawAmount(f.c))

\* lines 785-793 and 657-664: the allowance check returns; without approval the flow
\* goes on in approveToken up to its first await
AllowanceResolved(f, readOk) ==
  /\ f \in flows /\ f.pc = "allowance"
  /\ IF HasApproval(f, readOk)
     THEN /\ flows' = (flows \ {f}) \cup {At(f, "gas")}
          /\ UNCHANGED <<loading, approving, needsApproval>>
     ELSE /\ needsApproval' = TRUE
          /\ loading' = FALSE
          /\ approving' = TRUE
          /\ flows' = (flows \ {f}) \cup {At(f, "approveSend")}
  /\ swapLast' = SwapStep
  /\ FormUnchanged
  /\ UNCHANGED <<allowance, approveTxs, swapTxs, clicks, calls, events>>

\* lines 665-675: the wallet answers the approve transaction request; confirmed: the
\* user signs and the transaction is sent
ApproveSendResolved(f, confirmed) ==
  /\ f \in flows /\ f.pc = "approveSend"
  /\ IF confirmed
     THEN /\ Cardinality(approveTxs) < MaxApproveTxs
          /\ approveTxs' = approveTxs \cup
               {[n |-> Cardinality(approveTxs) + 1, click |-> f.click,
                 resumed |-> f.resumed, amount |-> RawAmount(f.c),
                 swap |-> SwapAmount(f.c), decimals |-> f.c.ft.decimals]}
          /\ flows' = (flows \ {f}) \cup {At(f, "approveReceipt")}
          /\ swapLast' = SwapStep
          /\ FormUnchanged
          /\ UNCHANGED <<loading, approving, needsApproval, allowance, swapTxs, clicks,
                         calls, events>>
     ELSE ApprovalFailed(f, "approveSend", "rejected")

ReceiptOutcomes == {"success", "reverted", "timeout"}

\* lines 677-697 and 723-725, then lines 791-792 and 977-979: the receipt polling of
\* the approve transaction ends.  On success approveToken calls executeSwap, which
\* runs up to its `await fetch` with the closure of the click; then approveToken's
\* finally block runs, and then the finally block of the executeSwap that awaited it.
ApproveReceiptResolved(f, outcome) ==
  /\ f \in flows /\ f.pc = "approveReceipt"
  /\ IF outcome = "success"
     THEN /\ allowance' = RawAmount(f.c)
          /\ needsApproval' = FALSE
          /\ flows' = (flows \ {f}) \cup {Flow(calls + 1, f.click, "quote", f.c, TRUE)}
          /\ calls' = calls + 1
          /\ approving' = FALSE
          /\ loading' = FALSE
          /\ swapLast' = SwapStep
          /\ FormUnchanged
          /\ UNCHANGED <<approveTxs, swapTxs, clicks, events>>
     ELSE ApprovalFailed(f, "approveReceipt", outcome)

\* a gas estimate that is not awaited: the flow goes on whatever the answer
AfterEstimateUnchecked(ok) == "send"

\* lines 802-826: an estimate that fails throws, and only after one that succeeds
\* the flow asks the wallet to send the transaction
AfterEstimate(ok) == IF ok THEN "send" ELSE "catch"

\* lines 800-836: eth_estimateGas answers; the flow goes on to its eth_sendTransaction
\* request or ends in the catch block
GasEstimateResolved(f, ok) ==
  /\ f \in flows /\ f.pc = "gas"
  /\ events' = events
       \cup (IF ok THEN {} ELSE {Event(f, "estimateFailed")})
       \cup (IF AfterEstimate(ok) = "send" THEN {Event(f, "sendRequested")} ELSE {})
  /\ IF AfterEstimate(ok) = "send"
     THEN /\ flows' = (flows \ {f}) \cup {At(f, "send")}
          /\ swapLast' = SwapStep
          /\ FormUnchanged
          /\ UNCHANGED <<loading, approving, needsApproval, allowance, approveTxs,
                         swapTxs, clicks, calls>>
     ELSE SwapFailed(f, "gas", "estimate", 0)

\* lines 828-838: the wallet answers the swap transaction request
SwapSendResolved(f, confirmed) ==
  /\ f \in flows /\ f.pc = "send"
  /\ UNCHANGED events
  /\ IF confirmed
     THEN /\ swapTxs' = swapTxs \cup
               {[n |-> Cardinality(swapTxs) + 1, click |-> f.click,
                 amount |-> SwapAmount(f.c),
                 max_slippage |-> PathfinderParams(SwapQuoteQuery(f.c)).max_slippage]}
          /\ flows' = (flows \ {f}) \cup {At(f, "receipt")}
          /\ swapLast' = SwapStep
          /\ FormUnchanged
          /\ UNCHANGED <<loading, approving, needsApproval, allowance, approveTxs,
                         clicks, calls>>
     ELSE SwapFailed(f, "send", "rejected", 0)

\* the router can take the input of the swap: the native token, or an ERC-20 token
\* within the allowance
CanSpend(f) == IF f.c.ft.native THEN TRUE ELSE NumGeq(allowance, RawAmount(f.c))

\* what eth_getTransactionReceipt may answer: no receipt yet, a receipt with status
\* 0x1 or 0x0, or an error
ReceiptAnswers == {"none", "0x1", "0x0", "error"}

\* a loop that polls until a receipt arrives
PollAgainWithoutCeiling(receipt, attempts) == receipt = "none"

\* line 843: while (!receipt && attempts < 30)
PollAgain(receipt, attempts) == receipt = "none" /\ attempts < PollLimit

\* lines 840-910 and 912-979: one round of the receipt polling of the swap
\* transaction: a second passes, the receipt is requested, attempts is incremented;
\* then the loop goes on, or the flow ends: with status 0x1 in the success modal and
\* the reset of the form, otherwise in the catch block
SwapReceiptPolled(f, answer) ==
  /\ f \in flows /\ f.pc = "receipt"
  /\ UNCHANGED events
  /\ IF answer = "error"
     THEN SwapFailed(f, "receipt", "rpc", f.attempts + 1)
     ELSE IF PollAgain(answer, f.attempts + 1)
     THEN /\ flows' = (flows \ {f}) \cup {[f EXCEPT !.attempts = f.attempts + 1]}
          /\ swapLast' = SwapStep
          /\ FormUnchanged
          /\ UNCHANGED <<loading, approving, needsApproval, allowance, approveTxs,
                         swapTxs, clicks, calls>>
     ELSE IF answer = "0x1"
     THEN /\ CanSpend(f)
          /\ allowance' = IF f.c.ft.native THEN allowance
                          ELSE NumSub(allowance, RawAmount(f.c))
          /\ Install(Commit(RenderState,
                            [RenderState EXCEPT !.fa = Empty, !.ta = Empty],
                            Timers, FALSE))
          /\ priceImpact' = Null
          /\ exchangeRate' = NoRate
          /\ needsApproval' = FALSE
          /\ loading' = FALSE
          /\ flows' = flows \ {f}
          /\ swapLast' = SwapEnded("success", f, "receipt", "", f.attempts + 1,
                                    "0x1", <<>>)
          /\ UNCHANGED <<quoteTimer, quoteLoading, inflight, issued, newest, typing,
                         last, userOps, approving, approveTxs, swapTxs, clicks, calls>>
          /\ chainVersion' = chainVersion + 1
          /\ balanceCalls' = balanceCalls \cup
               {[pc |-> "scheduled", swap |-> chainVersion + 1, confirmedAt |-> now]}
          /\ UNCHANGED <<balanceStore, availableTokens, balanceLast>>
          /\ UNCHANGED <<cacheVars, settingsVars>>
     ELSE SwapFailed(f, "receipt", IF answer = "0x0" THEN "reverted" ELSE "timeout",
                     f.attempts + 1)

\* the allowances the wallet may have given before: none, or five USDC
Allowances == {Rat(0, 1), Rat(5000000, 1)}

\* the form filled in and quoted: a pair of the native and the ERC-20 token in either
\* direction, an amount of 5 in either mode, no quote request pending
SwapInit ==
  /\ \E price \in UsdcPrices : \E erc20In \in BOOLEAN :
       /\ fromToken = IF erc20In THEN Usdc(price) ELSE Mon
       /\ toToken = IF erc20In THEN Mon ELSE Usdc(price)
  /\ fromAmount = Dec(5, 0)
  /\ toAmount = Dec(998, -2)
  /\ fromMode \in {"token", "usd"}
  /\ toMode = "token"
  /\ lastEditedField = "from"
  /\ quoteTimer = QuoteTimerFull
  /\ quoteLoading = FALSE
  /\ priceImpact = Null
  /\ exchangeRate = NoRate
  /\ debFrom = NoTimer
  /\ debTo = NoTimer
  /\ interval = NoTimer
  /\ inflight = {}
  /\ issued = 0
  /\ newest = [from |-> 0, to |-> 0]
  /\ typing = [side |-> "from", since |-> DebounceDelay, burst |-> FALSE]
  /\ last = Other
  /\ userOps = 0
  /\ \E approved \in Allowances : SwapIdle(approved)
  /\ CacheIdle(Absent)
  /\ BalanceIdle(Absent)

SwapNext ==
  \/ ClickSwap
  \/ \E f \in flows : \E ok \in BOOLEAN : SwapQuoteResolved(f, ok)
  \/ \E f \in flows : \E readOk \in BOOLEAN : AllowanceResolved(f, readOk)
  \/ \E f \in flows : \E confirmed \in BOOLEAN : ApproveSendResolved(f, confirmed)
  \/ \E f \in flows : \E outcome \in ReceiptOutcomes : ApproveReceiptResolved(f, outcome)
  \/ \E f \in flows : \E ok \in BOOLEAN : GasEstimateResolved(f, ok)
  \/ \E f \in flows : \E confirmed \in BOOLEAN : SwapSendResolved(f, confirmed)
  \/ \E f \in flows : \E answer \in ReceiptAnswers : SwapReceiptPolled(f, answer)

SpecSwap == SwapInit /\ [][SwapNext]_vars

-----------------------------------------------------------------------------
(* The slippage settings *)

SettingsFrame ==
  /\ UNCHANGED <<fromToken, toToken, fromAmount, toAmount, fromMode, toMode,
                 lastEditedField, quoteTimer, quoteLoading, priceImpact, exchangeRate,
                 debFrom, debTo, interval, inflight, issued, newest, typing>>
  /\ UNCHANGED <<swapVars, cacheVars, balanceVars>>
  /\ last' = Other
  /\ userOps' = userOps + 1

\* lines 1793-1822 and 2017-2046: the preset buttons 0.1%, 0.5% and 1.0%
Presets == {Rat(1, 10), Rat(1, 2), Rat(1, 1)}

SetSlippage(preset) ==
  /\ userOps < MaxUserOps
  /\ slippageTolerance' = preset
  /\ customSlippage' = Empty
  /\ SettingsFrame

\* lines 1835-1842 and 2059-2066: onChange of the custom slippage field
TypeCustomSlippage(value) ==
  /\ userOps < MaxUserOps
  /\ value # customSlippage
  /\ customSlippage' = value
  /\ LET numValue == ParseFloat(value)
     IN  slippageTolerance' =
           IF /\ ~numValue.nan
              /\ NumGeq(numValue, Rat(0, 1))
              /\ NumGeq(Rat(MaxCustomSlippage, 1), numValue)
           THEN numValue
           ELSE slippageTolerance
  /\ SettingsFrame

\* Math.ceil(x) of a number x
Ceil(x) == IF x.n >= 0 THEN (x.n + x.d - 1) \div x.d ELSE -((-x.n) \div x.d)

\* lines 1861 and 1871-1875: the button 'Increase to X%' of the slippage warning,
\* shown while the price impact exceeds the tolerance
IncreaseSlippage ==
  /\ userOps < MaxUserOps
  /\ ImpactTooHigh
  /\ slippageTolerance' = Rat(Ceil(NumMul(priceImpact, Rat(10, 1))), 10)
  /\ UNCHANGED customSlippage
  /\ SettingsFrame

\* what the user types into the custom slippage field
SlippageInputs == {Empty, Junk, Dec(3, 0), Dec(60, 0)}

\* the quote of the amount in the URL, its refreshes, and the slippage settings
SlippageNext ==
  \/ \E price \in UsdcPrices : \E amountParam \in UrlAmounts : LoadData(price, amountParam)
  \/ Advance
  \/ DebounceFromFires
  \/ IntervalTick
  \/ \E req \in inflight : \E out \in Outcomes : QuoteResolved(req, out)
  \/ \E preset \in Presets : SetSlippage(preset)
  \/ \E value \in SlippageInputs : TypeCustomSlippage(value)
  \/ IncreaseSlippage

SpecSlippage == Init /\ [][SlippageNext]_vars

-----------------------------------------------------------------------------
(* The balance refresh after a successful swap *)

BalanceFrame == UNCHANGED <<quoteVars, swapVars, settingsVars>>

\* time passes
BalanceClock(d) ==
  /\ ticks < MaxTicks
  /\ now' = now + d
  /\ ticks' = ticks + 1
  /\ UNCHANGED <<store, tabs, cacheLast, lookups>>
  /\ UNCHANGED balanceVars
  /\ BalanceFrame

\* lines 880-890 and 228-233: the timeout set by the successful swap fires and calls
\* getWalletBalances, which returns the cached balance set if the cache has one, and
\* goes on to its `await fetch` otherwise
RefreshRuns(call) ==
  /\ call \in balanceCalls /\ call.pc = "scheduled"
  /\ LET cached == getCachedBalances(balanceStore, now)
     IN  IF cached.hit
         THEN /\ availableTokens' = cached.balances
              /\ balanceCalls' = balanceCalls \ {call}
              /\ balanceLast' = Installed(call, cached.balances, cached.timestamp, FALSE)
         ELSE /\ balanceCalls' = (balanceCalls \ {call}) \cup {[call EXCEPT !.pc = "fetch"]}
              /\ balanceLast' = [op |-> "step"]
              /\ UNCHANGED availableTokens
  /\ UNCHANGED <<balanceStore, chainVersion>>
  /\ UNCHANGED cacheVars
  /\ BalanceFrame

\* lines 235-321 and 885-890: the balance service answers; ok: with the balances of
\* the chain, which are cached and displayed
BalanceFetched(call, ok) ==
  /\ call \in balanceCalls /\ call.pc = "fetch"
  /\ balanceCalls' = balanceCalls \ {call}
  /\ IF ok
     THEN /\ balanceStore' = BalanceEntry(chainVersion, now)
          /\ availableTokens' = chainVersion
          /\ balanceLast' = Installed(call, chainVersion, now, TRUE)
     ELSE /\ availableTokens' = NoBalances
          /\ balanceLast' = Installed(call, NoBalances, now, TRUE)
          /\ UNCHANGED balanceStore
  /\ UNCHANGED chainVersion
  /\ UNCHANGED cacheVars
  /\ BalanceFrame

\* the steps of the clock: a millisecond, or the lifetime of a cached balance set
BalanceSteps == {1, BALANCE_CACHE_DURATION}

\* a swap of MON was entered less than 30 seconds after the page had loaded and
\* cached the balances, or after a page load whose balance fetch had failed
BalanceInit ==
  /\ fromToken = Mon
  /\ \E price \in UsdcPrices : toToken = Usdc(price)
  /\ fromAmount = Dec(5, 0)
  /\ toAmount = Dec(998, -2)
  /\ fromMode = "token"
  /\ toMode = "token"
  /\ lastEditedField = "from"
  /\ quoteTimer = QuoteTimerFull
  /\ quoteLoading = FALSE
  /\ priceImpact = Null
  /\ exchangeRate = NoRate
  /\ debFrom = NoTimer
  /\ debTo = NoTimer
  /\ interval = NoTimer
  /\ inflight = {}
  /\ issued = 0
  /\ newest = [from |-> 0, to |-> 0]
  /\ typing = [side |-> "from", since |-> DebounceDelay, burst |-> FALSE]
  /\ last = Other
  /\ userOps = 0
  /\ SwapIdle(Rat(0, 1))
  /\ CacheIdle(Absent)
  /\ \E cached \in {Absent, BalanceEntry(0, 0)} : BalanceIdle(cached)

\* the swap of the native token, the clock and the balance refresh
BalanceNext ==
  \/ ClickSwap
  \/ \E f \in flows : \E ok \in BOOLEAN : SwapQuoteResolved(f, ok)
  \/ \E f \in flows : \E ok \in BOOLEAN : GasEstimateResolved(f, ok)
  \/ \E f \in flows : \E confirmed \in BOOLEAN : SwapSendResolved(f, confirmed)
  \/ \E f \in flows : \E answer \in ReceiptAnswers : SwapReceiptPolled(f, answer)
  \/ \E d \in BalanceSteps : BalanceClock(d)
  \/ \E call \in balanceCalls : RefreshRuns(call)
  \/ \E call \in balanceCalls : \E ok \in BOOLEAN : BalanceFetched(call, ok)

SpecBalance == BalanceInit /\ [][BalanceNext]_vars

-----------------------------------------------------------------------------
(* Properties of the amount reconciliation logic *)

\* the amount displayed on a side
Shown(side) == IF side = "from" THEN fromAmount ELSE toAmount

\* C1: a response to a request made for one side never writes the other side once
\* the user has typed in that other side (lastEditedField names it): the amount the
\* user typed there is still displayed after the response has been handled.
C1_ResponseSparesFocusedSide ==
  last.op = "apply" =>
    /\ (last.req.isFrom /\ last.pre.lef = "to" => toAmount = last.pre.ta)
    /\ (~last.req.isFrom /\ last.pre.lef = "from" => fromAmount = last.pre.fa)

\* C2: a response is applied only if it belongs to the request most recently sent
\* for its side: the response of an older request changes neither amount.
C2_OnlyNewestRequestApplied ==
  last.op = "apply" /\ last.req.id # newest[SideOf(last.req.isFrom)] =>
    fromAmount = last.pre.fa /\ toAmount = last.pre.ta

\* C5: a mode toggle only re-renders: with price 2.00 a token amount 5 becomes 10 in
\* usd mode, and the toggle sends no quote request, neither at once nor by arming a
\* debounce timeout, whether or not the toggled side was the side last edited.
C5_ToggleIsPureReformat ==
  [][(ToggleFromMode \/ ToggleToMode) =>
       /\ (ToggleFromMode /\ fromMode = "token" /\ fromAmount = Dec(5, 0)
             /\ fromToken.price = 2
           => fromAmount' = Dec(10, 0) /\ fromMode' = "usd")
       /\ inflight' = inflight
       /\ debFrom' = debFrom
       /\ debTo' = debTo]_vars

\* C6: however fast the user types, a request sent by a debounce timeout or by the
\* periodic refresh carries the value its side displays when it is sent, and is
\* sent no sooner than DebounceDelay after the last edit: a value that was replaced
\* within the delay is never sent.
C6_OnlyLastValueOfBurstIsSent ==
  last.op = "issue" /\ last.src \in {"debounce", "interval"} =>
    /\ last.arg = Shown(SideOf(last.req.isFrom))
    /\ last.settled

\* C6 happens: a debounce timeout sends the last value of a burst of edits
C6_BurstThenRequest ==
  /\ last.op = "issue"
  /\ last.src = "debounce"
  /\ last.burst
  /\ last.arg \in {Dec(5, 0), Dec(7, 0)}

\* C7: when the response to an edit of the input side is applied, its output o is
\* displayed in the mode the output side has at that moment: the numeral of o times
\* the unit price of the output token, to 4 significant figures, when the mode is usd
\* and the price is known, and the numeral of o otherwise, also when the mode was
\* toggled after the request was sent.
C7_OutputRenderedInCurrentMode ==
  last.op = "apply" /\ last.req.isFrom =>
    LET o == ParseFloat(last.out)
    IN  toAmount =
          IF last.pre.tm = "usd" /\ HasPrice(last.pre.tt)
          THEN formatSignificantFigures(NumMul(o, usdPrice(last.pre.tt)), SigFigs)
          ELSE formatSignificantFigures(o, SigFigs)

\* C8: when the edited side is in usd mode and its token has a price, the amount sent
\* to the quote service is the typed amount divided by the unit price of that same
\* side's token; for an edit of the to side that is the price of the output token.
C8_UsdAmountDividedByOwnPrice ==
  last.op = "issue" =>
    LET tok  == IF last.req.isFrom THEN fromToken ELSE toToken
        mode == IF last.req.isFrom THEN fromMode ELSE toMode
    IN  mode = "usd" /\ HasPrice(tok) =>
          last.req.amount = NumDiv(ParseFloat(last.arg), usdPrice(tok))

\* C9: when the edited side is in usd mode and its token has no known price (absent
\* or 0), the debounce timeout sends no request.
C9_NoRequestWithoutPrice ==
  last.op = "issue" /\ last.src = "debounce" =>
    LET tok  == IF last.req.isFrom THEN fromToken ELSE toToken
        mode == IF last.req.isFrom THEN fromMode ELSE toMode
    IN  ~(mode = "usd" /\ ~HasPrice(tok))

\* C11: when a debounce timeout or the periodic refresh finds the amount of the
\* edited side empty or parsing to a value <= 0, it sends no request and leaves both
\* displayed amounts, the opposite side included, exactly as they were.
C11_NoRequestForEmptyOrNonPositive ==
  /\ last.op = "issue" /\ last.src \in {"debounce", "interval"} =>
       Truthy(last.arg) /\ ~NumLeqZero(ParseFloat(last.arg))
  /\ last.op = "skip" =>
       /\ ~Truthy(last.arg) \/ NumLeqZero(ParseFloat(last.arg))
       /\ fromAmount = last.pre.fa /\ toAmount = last.pre.ta

\* C11 happens: a debounce timeout finds 0 on the edited side while the opposite side
\* displays a quoted amount, and sends nothing
C11_ZeroSkipped ==
  /\ last.op = "skip"
  /\ last.src = "debounce"
  /\ last.arg = Dec(0, 0)
  /\ last.pre.lef = "from"
  /\ toAmount \in {Dec(998, -2), Dec(1235, -3)}

\* C10: text that is not a number never causes a quote request, neither after the
\* debounce delay nor at a refresh.
C10_NonNumericNeverRequested ==
  last.op = "issue" /\ last.src \in {"debounce", "interval"} => last.arg.k = "num"

\* C12: a fetchQuote call whose request fails raises exactly one notification, and
\* neither the step that sends the request nor the step that handles the failure
\* writes fromAmount, toAmount, the exchange rate or the price impact.
C12_FailedQuoteLeavesValues ==
  [][/\ last'.op = "fail" =>
          /\ Len(last'.notes) = 1
          /\ UNCHANGED <<fromAmount, toAmount, exchangeRate, priceImpact>>
     /\ last'.op = "issue" =>
          UNCHANGED <<fromAmount, toAmount, exchangeRate, priceImpact>>]_vars

\* C12: a request failed while the form showed an earlier quote with its exchange
\* rate and price impact
C12_FailedAfterQuote ==
  /\ last.op = "fail" /\ Len(last.notes) = 1
  /\ Truthy(last.pre.fa) /\ Truthy(last.pre.ta)
  /\ last.impact # Null /\ last.rate # NoRate
  /\ fromAmount = last.pre.fa /\ toAmount = last.pre.ta
  /\ priceImpact = last.impact /\ exchangeRate = last.rate

\* C13: a failure for lack of liquidity shows "Insufficient Liquidity", a failure of
\* the connection shows "Network Error", and no such failure shows "Quote Failed".
C13_FailuresClassified ==
  last.op = "fail" =>
    /\ last.cause = "liquidity" => last.notes = <<"Insufficient Liquidity">>
    /\ last.cause \in {"offline", "connectionLost"} => last.notes = <<"Network Error">>

------------------------------------------------------------------------\* C21: after the swap-direction button is pressed, and the effects of that render
\* have run, the two tokens are exchanged and each field shows exactly the string
\* the other field showed before
C21_SwapSidesExchangesVerbatim ==
  last.op = "swapSides" =>
    /\ fromToken = last.pre.tt
    /\ toToken = last.pre.ft
    /\ fromAmount = last.pre.ta
    /\ toAmount = last.pre.fa

\* a step in which the callback of the auto-refresh interval runs
TickStep ==
  /\ interval.on /\ interval.left = 0
  /\ interval' = [interval EXCEPT !.left = RefreshInterval]
  /\ userOps' = userOps
  /\ inflight \subseteq inflight'

\* what a tick does when the expired countdown sends a request exactly if `sends`
PeriodicRefresh(sends) ==
  /\ TickStep =>
       IF quoteTimer > 1
       THEN quoteTimer' = quoteTimer - 1 /\ inflight' = inflight
       ELSE /\ quoteTimer' = QuoteTimerFull
            /\ IF sends
               THEN /\ last'.op = "issue" /\ last'.src = "interval"
                    /\ last'.req.isFrom = (lastEditedField = "from")
                    /\ last'.arg = Shown(lastEditedField)
                    /\ last'.req \notin inflight
                    /\ inflight' = inflight \cup {last'.req}
               ELSE inflight' = inflight
  /\ last'.op = "apply" => quoteTimer' = QuoteTimerFull

\* C22 as stated: every tick of the interval decrements the countdown by one; at
\* expiry the countdown returns to 15 and exactly one request is issued for the
\* side last edited with its current amount, none only if that amount is empty;
\* an applied response also sets the countdown to 15
C22_ExpiryRequestsUnlessEmpty ==
  [][PeriodicRefresh(Truthy(Shown(lastEditedField)))]_vars

\* C22 amended: as above, but the expired countdown issues no request either when
\* the amount of the side last edited parses to a value that is not positive
C22_PeriodicRefresh ==
  [][PeriodicRefresh(SendsRequest(Shown(lastEditedField)))]_vars

\* C22 witness: the expired countdown has issued a request and stands at 15 again
C22_RefreshIssued ==
  last.op = "issue" /\ last.src = "interval" /\ quoteTimer = QuoteTimerFull

\* the value v of a side converted once into newMode at unit price p
ConvertedOnce(v, newMode, p) ==
  IF newMode = "usd"
  THEN formatSignificantFigures(NumMul(ParseFloat(v), p), SigFigs)
  ELSE formatSignificantFigures(NumDiv(ParseFloat(v), p), SigFigs)

\* the token of a side in render state r
TokenOf(r, side) == IF side = "from" THEN r.ft ELSE r.tt

\* C23: after a mode toggle of a side that shows an amount and whose token has a
\* price, and after the effects of that render, the side shows its pre-toggle value
\* converted once into the new mode, whether or not it is the side last edited
C23_OneConversionPerToggle ==
  (last.op = "toggle" /\ Truthy(last.arg) /\ HasPrice(TokenOf(last.pre, last.src))) =>
    Shown(last.src) =
      ConvertedOnce(last.arg,
                    IF last.src = "from" THEN fromMode ELSE toMode,
                    usdPrice(TokenOf(last.pre, last.src)))

\* C23 witness: the toggled side is not the side last edited, so its mode-change
\* effect has run, and the conversion has changed the numeral
C23_OtherSideToggled ==
  /\ last.op = "toggle" /\ last.src # lastEditedField
  /\ Truthy(last.arg) /\ HasPrice(TokenOf(last.pre, last.src))
  /\ Shown(last.src).k = "num" /\ Shown(last.src) # last.arg

\* C24: when a side in token mode shows a decimal amount v, its token has a price,
\* and its mode is toggled to usd and straight back to token, the side shows v
\* rounded to 4 significant figures
C24_ModeRoundTrip ==
  [][(/\ last.op = "toggle" /\ last'.op = "toggle" /\ last'.src = last.src
      /\ userOps' = userOps + 1
      /\ (IF last.src = "from" THEN last.pre.fm ELSE last.pre.tm) = "token"
      /\ last.arg.k = "num"
      /\ HasPrice(TokenOf(last.pre, last.src)))
     => (IF last.src = "from" THEN fromAmount' ELSE toAmount')
          = formatSignificantFigures(ParseFloat(last.arg), SigFigs)]_vars

\* C25: a step that selects another from- or to-token, or in which the user makes
\* the edited amount empty or zero, leaves the exchange rate and the price impact
\* cleared
C25_QuoteResultDiscarded ==
  [][LET edited == IF lastEditedField' = "from" THEN fromAmount' ELSE toAmount'
         pairChanged == /\ fromToken # NoToken /\ toToken # NoToken
                        /\ <<fromToken', toToken'>> # <<fromToken, toToken>>
         amountCleared == /\ userOps' = userOps + 1
                          /\ edited # Shown(lastEditedField')
                          /\ ~Truthy(edited) \/ ParseFloat(edited) = Rat(0, 1)
     IN  (pairChanged \/ amountCleared) =>
           priceImpact' = Null /\ exchangeRate' = NoRate]_vars

\* C26: in every reachable state each side's displayed amount is empty or a numeral
\* of a finite number that is not negative
C26_AmountsEmptyOrNonNegative ==
  \A side \in {"from", "to"} :
    \/ ~Truthy(Shown(side))
    \/ Shown(side).k = "num" /\ NumGeq(ParseFloat(Shown(side)), Rat(0, 1))

\* C28: in every reachable state in which a quote request sent by fetchQuote is
\* still in flight, quoteLoading is true
C28_LoadingWhileInFlight == inflight # {} => quoteLoading

-----
(* Properties of the price cache *)

\* C18: getTokenPrice returns a cached price only while the age of the entry is at
\* most the cache duration; a call that finds no entry, or one older than that, gets
\* no price from the cache and goes on to fetch the price.
C18_NoStalePriceFromCache ==
  cacheLast.op = "lookup" =>
    /\ cacheLast.result # Null =>
         /\ cacheLast.age \in 0..PRICE_CACHE_DURATION
         /\ cacheLast.result = EntryOf(store, cacheLast.address).price
         /\ tabs[cacheLast.tab] = Idle
    /\ cacheLast.age = -1 \/ cacheLast.age > PRICE_CACHE_DURATION =>
         /\ cacheLast.result = Null
         /\ tabs[cacheLast.tab] = [pc |-> "fetch", address |-> cacheLast.address]

\* C18: a call found an entry older than the cache duration and fetches the price
C18_ExpiredEntryRefetched ==
  /\ cacheLast.op = "lookup" /\ cacheLast.age > PRICE_CACHE_DURATION
  /\ cacheLast.result = Null /\ tabs[cacheLast.tab].pc = "fetch"

\* C19: whatever the item held before, a lookup of an address that directly follows
\* the caching of a price for it in the same tab returns that price.
C19_PutThenGetReturnsValue ==
  /\ cacheLast.op = "lookup"
  /\ cacheLast.after.op = "put"
  /\ cacheLast.after.tab = cacheLast.tab
  /\ cacheLast.after.address = cacheLast.address
  => cacheLast.result = cacheLast.after.price

\* C20: a tab that writes the entry of one address leaves the entries of the other
\* addresses as they were, and the entry it wrote holds its price.
C20_PutSparesOtherEntries ==
  [][cacheLast'.op = "put" /\ cacheLast'.outcome = "written" =>
       /\ EntryOf(store', cacheLast'.address) # Null
       /\ EntryOf(store', cacheLast'.address).price = cacheLast'.price
       /\ \A a \in Addresses \ {cacheLast'.address} :
            EntryOf(store', a) = EntryOf(store, a)]_vars

-----------------------------------------------------------------------------
(* Properties of the swap submission flow *)

\* C3: no second swap starts while one is in flight: from the start of executeSwap,
\* through an approval and the executeSwap resumed after it, until the flow ends in
\* success or failure, loading or approving is set, and the flows in flight come
\* from one click.
C3_BusyUntilDone ==
  /\ flows # {} => loading \/ approving
  /\ Cardinality({f.click : f \in flows}) <= 1

\* C4: a click that finds the allowance insufficient sends exactly one approve
\* transaction, for exactly the amount of the swap, and after its receipt the flow
\* goes on to the swap transaction without another approve transaction.
C4_OneExactApprovePerClick ==
  /\ \A t \in approveTxs :
       t.amount = NumMul(t.swap, Rat(Pow10(t.decimals), 1))
  /\ \A t, u \in approveTxs : t.click = u.click => t = u

\* C14: the receipt polling of a swap transaction ends: a flow still polling has made
\* fewer than 30 requests, a flow that ended in polling made at most 30, one that ended
\* for want of a receipt made exactly 30 and ended in failure, and a flow ends in
\* success (modal shown, both amounts cleared) only with a receipt of status 0x1.
C14_PollingBoundedAndSuccessNeedsReceipt ==
  /\ \A f \in flows : f.attempts < PollLimit
  /\ swapLast.op \in {"failed", "success"} /\ swapLast.step = "receipt" =>
       /\ swapLast.requests \in 1..PollLimit
       /\ swapLast.cause = "timeout" <=>
            swapLast.receipt = "none" /\ swapLast.requests = PollLimit
                                     /\ swapLast.cause # "rpc"
       /\ swapLast.receipt = "none" => swapLast.op = "failed"
  /\ swapLast.op = "success" =>
       /\ swapLast.step = "receipt" /\ swapLast.receipt = "0x1" /\ swapLast.modal
       /\ fromAmount = Empty /\ toAmount = Empty

\* C14: a swap transaction got no receipt in 30 requests and its flow ended in failure
C14_TimedOut ==
  /\ swapLast.op = "failed" /\ swapLast.step = "receipt" /\ swapLast.cause = "timeout"
  /\ swapLast.requests = PollLimit /\ swapLast.receipt = "none"
  /\ \A f \in flows : f.id # swapLast.call

\* C15: the notification of a confirmation timeout differs from the notification of
\* a reverted transaction, points the user to the explorer and does not say that the
\* swap failed.
C15_TimeoutReportedApartFromRevert ==
  /\ SwapFailureNotifications(SwapError("timeout"))
       # SwapFailureNotifications(SwapError("reverted"))
  /\ swapLast.op = "failed" /\ swapLast.step = "receipt" /\ swapLast.cause = "timeout" =>
       \A i \in 1..Len(swapLast.notes) :
         swapLast.notes[i].explorer /\ swapLast.notes[i].title # "Swap Failed"

\* C16: a call of executeSwap whose gas estimate failed is over, it never asked the
\* wallet to send the swap transaction, and it ended with one error notification.
C16_NoSendAfterFailedEstimate ==
  /\ \A e \in events :
       e.ev = "estimateFailed" =>
         /\ [e EXCEPT !.ev = "sendRequested"] \notin events
         /\ \A f \in flows : f.id # e.call
  /\ swapLast.op = "failed" /\ swapLast.step = "gas" =>
       /\ Len(swapLast.notes) = 1
       /\ [call |-> swapLast.call, ev |-> "estimateFailed"] \in events

\* C16: the gas estimate of one call failed, and a later call was asked to send its
\* swap transaction
C16_EstimateFailedThenRetried ==
  \E e, r \in events :
    e.ev = "estimateFailed" /\ r.ev = "sendRequested" /\ r.call > e.call

\* C17: a step that ends a flow in failure writes neither amount nor token and leaves
\* loading and approving cleared.
C17_FailurePreservesForm ==
  [][swapLast'.op = "failed" =>
       /\ UNCHANGED <<fromAmount, toAmount, fromToken, toToken>>
       /\ ~loading' /\ ~approving']_vars

\* C29: the balance set installed by the refresh that follows a successful swap was
\* fetched by that refresh, after the swap was confirmed, and reflects the swap; it
\* is never a set the cache held
C29_RefreshAfterSwapIsLive ==
  (balanceLast.op = "installed" /\ balanceLast.balances # NoBalances) =>
    /\ balanceLast.live
    /\ balanceLast.storedAt >= balanceLast.call.confirmedAt
    /\ balanceLast.balances >= balanceLast.call.swap

\* C30: in every reachable state the slippage tolerance lies in the range the custom
\* field accepts, from 0 to 50
C30_SlippageWithinRange ==
  /\ NumGeq(slippageTolerance, Rat(0, 1))
  /\ NumGeq(Rat(MaxCustomSlippage, 1), slippageTolerance)

\* C27: every swap transaction that was submitted was built for a quote request
\* whose maximum slippage is the slippage tolerance of the user
C27_SlippageToleranceGoverns ==
  \A tx \in swapTxs : tx.max_slippage = slippageTolerance

====
